---- MODULE Spec2Model ----
(***************************************************************************)
(* Job-configuration resolution of the Glue L2 job variants                *)
(* pySparkStreamingJob (lib/jobs/pyspark-streaming-job.ts) and RayJob      *)
(* (lib/jobs/ray-job.ts).                                                  *)
(*                                                                         *)
(* A state is the provisioning scope after some constructor calls: the     *)
(* job resources emitted into it, the read/write grants applied to         *)
(* buckets and roles, the buckets created by jobs, and the outcome of the  *)
(* most recent constructor call.  One action is one whole constructor      *)
(* call; a constructor that throws keeps the side effects it performed     *)
(* before the throw.                                                       *)
(*                                                                         *)
(* Optional values (TypeScript `x?: T`) are sequences of length at most    *)
(* one: None is undefined, Some(v) is a set value.  Strings that the code  *)
(* inspects character by character (the Spark UI prefix) are sequences of  *)
(* one-character strings; Str turns them into the string they denote.      *)
(* Pass-through properties that no step of the constructors inspects       *)
(* (description, maxRetries, timeout, connections, tags, ...) are left     *)
(* out of the property bag.                                                *)
(***************************************************************************)
EXTENDS Integers, Sequences, FiniteSets, TLC

VARIABLES stackJobs, grants, buckets, calls, last

vars == <<stackJobs, grants, buckets, calls, last>>

-----------------------------------------------------------------------------
(* Bounds *)

MaxCalls == 2
MaxCallerKeys == 1

-----------------------------------------------------------------------------
(* Optional values and strings *)

None == << >>
Some(v) == <<v>>

RECURSIVE Str(_)
Str(s) == IF s = << >> THEN "" ELSE Head(s) \o Str(Tail(s))

EmptyArgs == [k \in {} |-> ""]

-----------------------------------------------------------------------------
(* Vocabularies of ../constants *)

JobType_STREAMING == "gluestreaming"
JobLanguage_PYTHON == "python"
PythonVersion_THREE_NINE == "3.9"
GlueVersion_V4_0 == "4.0"
WorkerType_G_1X == "G.1X"
WorkerType_G_2X == "G.2X"

-----------------------------------------------------------------------------
(* Helpers of ./job and ./spark-ui *)

ReservedArgs == {"--debug", "--mode", "--JOB_NAME"}

\* Job.checkNoReservedArgs: throws when a key of the given map is reserved,
\* returns the map itself otherwise (an undefined map is returned as is).
checkNoReservedArgs(defaultArguments) ==
  IF defaultArguments # None /\ DOMAIN defaultArguments[1] \cap ReservedArgs # {}
  THEN [threw |-> TRUE, value |-> EmptyArgs]
  ELSE [threw |-> FALSE,
        value |-> IF defaultArguments = None THEN EmptyArgs ELSE defaultArguments[1]]

\* validateSparkUiPrefix: TRUE when the prefix is accepted, FALSE when it throws.
validateSparkUiPrefix(prefix) ==
  \/ prefix = << >>
  \/ Head(prefix) # "/" /\ prefix[Len(prefix)] = "/"

cleanSparkUiPrefixForGrant(prefix) ==
  IF prefix # << >> /\ Head(prefix) = "/" THEN Tail(prefix) ELSE prefix

\* Job.setupContinuousLogging: the fragment that enables continuous logging.
setupContinuousLogging(role, props) ==
  ("--enable-continuous-cloudwatch-log" :> "true")

\* Job.getResourceNameAttribute(jobResource.ref) and Job.buildJobArn
Ref(self) == "Job" \o ToString(self)
getResourceNameAttribute(ref) == ref
buildJobArn(resourceName) == "arn:job/" \o resourceName

\* Bucket.s3UrlForObject
s3UrlForObject(bucket, key) == "s3://" \o bucket \o "/" \o Str(key)

-----------------------------------------------------------------------------
(* Inputs of the constructors *)

Roles == {"GlueRole"}
Buckets == {"SharedBucket"}
\* a well-formed prefix and a malformed one (leading '/', no trailing '/')
Prefixes == {<<"a", "/">>, <<"/", "a">>}
NumbersOfWorkers == {0, 1}

CallerKeys == {"--job-language", "--enable-metrics", "--enable-spark-ui",
               "--spark-event-logs-path", "--debug"}
CallerValues == {"x"}
ArgumentMaps ==
  UNION {[S -> CallerValues] :
           S \in {T \in SUBSET CallerKeys : Cardinality(T) <= MaxCallerKeys}}

SparkUIProps == [bucket : {None} \cup {Some(b) : b \in Buckets}, prefix : Prefixes]
\* a configuration is drawn enabled; a job without one covers the disabled case
ContinuousLoggingProps == [enabled : {TRUE}]

JobProperties ==
  [role : Roles,
   defaultArguments : {None} \cup {Some(m) : m \in ArgumentMaps}]

PySparkStreamingJobProperties ==
  [role : Roles,
   sparkUI : {None} \cup {Some(u) : u \in SparkUIProps},
   continuousLogging : {None} \cup {Some(c) : c \in ContinuousLoggingProps},
   defaultArguments : {None} \cup {Some(m) : m \in ArgumentMaps},
   workerType : {None, Some(WorkerType_G_1X)},
   numberOrWorkers : {None} \cup {Some(n) : n \in NumbersOfWorkers}]

RayJobProperties == JobProperties

-----------------------------------------------------------------------------
(* pySparkStreamingJob *)

\* Spread with the precedence reversed: the earlier fragment wins
SpreadFirstWins(a, b) ==
  [k \in DOMAIN a \cup DOMAIN b |-> IF k \in DOMAIN a THEN a[k] ELSE b[k]]

\* { ...a, ...b }: the keys of both, b's value where both have the key
Spread(a, b) ==
  [k \in DOMAIN a \cup DOMAIN b |-> IF k \in DOMAIN b THEN b[k] ELSE a[k]]

executableArguments(props) ==
  ("--job-language" :> JobLanguage_PYTHON)

profilingMetricsArgs == ("--enable-metrics" :> "")

continuousLoggingArgs(props) ==
  IF props.continuousLogging # None /\ props.continuousLogging[1].enabled
  THEN setupContinuousLogging(props.role, props.continuousLogging[1])
  ELSE EmptyArgs

\* the result of a call that threw, or of a call that was not made
NoSparkUI(threw) ==
  [threw |-> threw, granted |-> {}, created |-> {}, location |-> None,
   args |-> EmptyArgs]

\* setupSparkUI with the event-log path taken from the bucket alone
setupSparkUIBucketUrl(role, sparkUiProps, self) ==
  LET supplied == sparkUiProps.bucket # None
      bucket == IF supplied THEN sparkUiProps.bucket[1]
                ELSE "SparkUIBucket" \o ToString(self)
  IN IF ~validateSparkUiPrefix(sparkUiProps.prefix)
     THEN NoSparkUI(TRUE)
     ELSE [threw |-> FALSE,
           granted |-> {[bucket |-> bucket, role |-> role,
                         prefix |-> cleanSparkUiPrefixForGrant(sparkUiProps.prefix)]},
           created |-> IF supplied THEN {} ELSE {bucket},
           location |-> Some([prefix |-> sparkUiProps.prefix, bucket |-> bucket]),
           args |-> ("--enable-spark-ui" :> "true") @@
                    ("--spark-event-logs-path" :> s3UrlForObject(bucket, << >>))]

setupSparkUI(role, sparkUiProps, self) ==
  LET supplied == sparkUiProps.bucket # None
      bucket == IF supplied THEN sparkUiProps.bucket[1]
                ELSE "SparkUIBucket" \o ToString(self)
  IN IF ~validateSparkUiPrefix(sparkUiProps.prefix)
     THEN NoSparkUI(TRUE)
     ELSE [threw |-> FALSE,
           granted |-> {[bucket |-> bucket, role |-> role,
                         prefix |-> cleanSparkUiPrefixForGrant(sparkUiProps.prefix)]},
           created |-> IF supplied THEN {} ELSE {bucket},
           location |-> Some([prefix |-> sparkUiProps.prefix, bucket |-> bucket]),
           args |-> ("--enable-spark-ui" :> "true") @@
                    ("--spark-event-logs-path" :>
                       s3UrlForObject(bucket, sparkUiProps.prefix))]

\* sparkUIArgs that sets the Spark UI up with defaults when none is configured
sparkUIArgsByDefault(props, self) ==
  IF props.sparkUI # None /\ props.sparkUI[1].bucket # None
  THEN setupSparkUI(props.role, props.sparkUI[1], self)
  ELSE setupSparkUI(props.role, [bucket |-> None, prefix |-> << >>], self)

\* props.sparkUI?.bucket ? this.setupSparkUI(this.role, props.sparkUI) : undefined
sparkUIArgs(props, self) ==
  IF props.sparkUI # None /\ props.sparkUI[1].bucket # None
  THEN setupSparkUI(props.role, props.sparkUI[1], self)
  ELSE NoSparkUI(FALSE)

\* callerArguments without the reserved-key check
callerArgumentsUnchecked(props) ==
  [threw |-> FALSE,
   value |-> IF props.defaultArguments = None THEN EmptyArgs
             ELSE props.defaultArguments[1]]

\* ...this.checkNoReservedArgs(props.defaultArguments)
callerArguments(props) == checkNoReservedArgs(props.defaultArguments)

\* workerSizingMismatch testing the count for truthiness, so that 0 is unset
workerSizingMismatchTruthy(props) ==
  LET counted == props.numberOrWorkers # None /\ props.numberOrWorkers[1] # 0
  IN \/ props.workerType = None /\ counted
     \/ props.workerType # None /\ ~counted

\* the condition of the throw 'Both workerType and numberOrWorkers must be set'
workerSizingMismatch(props) ==
  \/ props.workerType = None /\ props.numberOrWorkers # None
  \/ props.workerType # None /\ props.numberOrWorkers = None

\* workerTypeOrDefault without the default
workerTypePassedThrough(props) == props.workerType

\* workerType: props.workerType ? props.workerType : WorkerType.G_2X
workerTypeOrDefault(props) ==
  IF props.workerType # None THEN props.workerType ELSE Some(WorkerType_G_2X)

\* new CfnJob(this, 'Resource', {...})
CfnJob(self, props, defaultArguments) ==
  [ref |-> Ref(self),
   role |-> props.role,
   command |-> [name |-> JobType_STREAMING,
                pythonVersion |-> PythonVersion_THREE_NINE],
   glueVersion |-> GlueVersion_V4_0,
   workerType |-> workerTypeOrDefault(props),
   numberOfWorkers |-> props.numberOrWorkers,
   defaultArguments |-> defaultArguments]

\* the outcome of a constructor call that threw `error` after the side
\* effects `granted` and `created`
Thrown(variant, self, props, error, granted, created) ==
  [variant |-> variant, id |-> self, props |-> props, error |-> error,
   emitted |-> << >>, granted |-> granted, created |-> created,
   sparkUILoggingLocation |-> None, jobName |-> None, jobArn |-> None]

pySparkStreamingJob(props, self) ==
  LET sparkUI == sparkUIArgs(props, self)
      caller == callerArguments(props)
      defaultArguments ==
        Spread(Spread(Spread(Spread(executableArguments(props),
                                    continuousLoggingArgs(props)),
                             profilingMetricsArgs),
                      sparkUI.args),
               caller.value)
      jobResource == CfnJob(self, props, defaultArguments)
      resourceName == getResourceNameAttribute(jobResource.ref)
  IN IF sparkUI.threw
     THEN Thrown("pySparkStreamingJob", self, props, "ValidationError", {}, {})
     ELSE IF caller.threw
     THEN Thrown("pySparkStreamingJob", self, props, "ReservedArgumentError",
                 sparkUI.granted, sparkUI.created)
     ELSE IF workerSizingMismatch(props)
     THEN Thrown("pySparkStreamingJob", self, props, "ConfigurationError",
                 sparkUI.granted, sparkUI.created)
     ELSE [variant |-> "pySparkStreamingJob", id |-> self, props |-> props,
           error |-> "none",
           emitted |-> <<jobResource>>,
           granted |-> sparkUI.granted, created |-> sparkUI.created,
           sparkUILoggingLocation |-> sparkUI.location,
           jobName |-> Some(resourceName),
           jobArn |-> Some(buildJobArn(resourceName))]

-----------------------------------------------------------------------------
(* RayJob *)

RayJob(props, self) ==
  LET caller == callerArguments(props)
      defaultArguments == Spread(EmptyArgs, caller.value)
  IN IF caller.threw
     THEN Thrown("RayJob", self, props, "ReservedArgumentError", {}, {})
     ELSE [variant |-> "RayJob", id |-> self, props |-> props,
           error |-> "none",
           emitted |-> << >>,
           granted |-> {}, created |-> {},
           sparkUILoggingLocation |-> None,
           jobName |-> None, jobArn |-> None]

-----------------------------------------------------------------------------
(* The provisioning scope *)

Init ==
  /\ stackJobs = {}
  /\ grants = {}
  /\ buckets = {}
  /\ calls = 0
  /\ last = [variant |-> "none", id |-> 0, props |-> None, error |-> "none",
             emitted |-> << >>, granted |-> {}, created |-> {},
             sparkUILoggingLocation |-> None, jobName |-> None, jobArn |-> None]

\* the effects of one constructor call with outcome r on the scope
Constructed(r) ==
  /\ last' = r
  /\ calls' = calls + 1
  /\ stackJobs' = stackJobs \cup {e.ref : e \in {r.emitted[i] : i \in DOMAIN r.emitted}}
  /\ grants' = grants \cup r.granted
  /\ buckets' = buckets \cup r.created

NewPySparkStreamingJob ==
  /\ calls < MaxCalls
  /\ \E props \in PySparkStreamingJobProperties :
       Constructed(pySparkStreamingJob(props, calls + 1))

NewRayJob ==
  /\ calls < MaxCalls
  /\ \E props \in RayJobProperties :
       Constructed(RayJob(props, calls + 1))

Next == NewPySparkStreamingJob \/ NewRayJob

Spec == Init /\ [][Next]_vars

-----------------------------------------------------------------------------
(* Vocabulary of the properties: the most recent constructor call *)

IsPySpark == last.variant = "pySparkStreamingJob"
IsRay == last.variant = "RayJob"
Succeeded == last.variant # "none" /\ last.error = "none"

\* the caller-supplied defaultArguments, empty when undefined
CallerMap ==
  IF last.props.defaultArguments = None THEN EmptyArgs
  ELSE last.props.defaultArguments[1]
CallerHasReservedKey == DOMAIN CallerMap \cap ReservedArgs # {}

SparkUIConfigured == IsPySpark /\ last.props.sparkUI # None
SparkUIBucketSupplied == SparkUIConfigured /\ last.props.sparkUI[1].bucket # None
SparkUIPrefixMalformed ==
  SparkUIConfigured /\ ~validateSparkUiPrefix(last.props.sparkUI[1].prefix)
\* setupSparkUI ran and rejected the prefix
SparkUIPrefixRejected == SparkUIBucketSupplied /\ SparkUIPrefixMalformed

WorkerTypeSet == last.props.workerType # None
WorkerCountSet == last.props.numberOrWorkers # None
ExactlyOneWorkerFieldSet == IsPySpark /\ (WorkerTypeSet # WorkerCountSet)

\* the argument map of the job resource emitted by the call
EmittedArguments == last.emitted[1].defaultArguments

-----------------------------------------------------------------------------
(* C1 *)

\* C1 (as stated): a caller-supplied defaultArguments map with a reserved key
\* makes either constructor fail with a reserved-argument error and emit no job
\* resource; a map without reserved keys never raises that error, whatever the
\* framework fragments hold.
C1_ReservedKeyRaisesReservedError ==
  (IsPySpark \/ IsRay) =>
    /\ CallerHasReservedKey =>
         last.error = "ReservedArgumentError" /\ last.emitted = << >>
    /\ ~CallerHasReservedKey => last.error # "ReservedArgumentError"

\* C1 (amended): a caller-supplied defaultArguments map with a reserved key
\* makes either constructor fail and emit no job resource, so the caller's value
\* is neither merged nor dropped silently; the failure is the reserved-argument
\* error, except that a pySparkStreamingJob whose setupSparkUI has already
\* rejected the prefix fails with that validation error instead.  A map without
\* reserved keys never raises the reserved-argument error.
C1_ReservedKeyFailsConstruction ==
  (IsPySpark \/ IsRay) =>
    /\ CallerHasReservedKey =>
         /\ last.emitted = << >>
         /\ last.error = IF SparkUIPrefixRejected THEN "ValidationError"
                         ELSE "ReservedArgumentError"
    /\ ~CallerHasReservedKey => last.error # "ReservedArgumentError"

C1_Witness ==
  /\ IsPySpark /\ CallerHasReservedKey
  /\ SparkUIBucketSupplied /\ ~SparkUIPrefixMalformed
  /\ last.error = "ReservedArgumentError" /\ last.emitted = << >>

-----------------------------------------------------------------------------
(* C2 *)

\* C2 (as stated): a pySparkStreamingJob with exactly one of workerType and the
\* worker count set (a count of 0 is set) fails with a configuration error and
\* emits no job resource; with both set, a successful construction emits both
\* values unchanged.
C2_WorkerMismatchRaisesConfigurationError ==
  IsPySpark =>
    /\ ExactlyOneWorkerFieldSet =>
         last.error = "ConfigurationError" /\ last.emitted = << >>
    /\ (WorkerTypeSet /\ WorkerCountSet /\ Succeeded) =>
         /\ last.emitted[1].workerType = last.props.workerType
         /\ last.emitted[1].numberOfWorkers = last.props.numberOrWorkers

\* C2 (amended): a pySparkStreamingJob with exactly one of workerType and the
\* worker count set (a count of 0 is set) fails and emits no job resource; the
\* failure is the configuration error unless an earlier step has already
\* failed: the validation error of a rejected Spark UI prefix first, the
\* reserved-argument error next.  With both set, a successful construction
\* emits both values unchanged.
C2_WorkerMismatchFailsConstruction ==
  IsPySpark =>
    /\ ExactlyOneWorkerFieldSet =>
         /\ last.emitted = << >>
         /\ last.error = IF SparkUIPrefixRejected THEN "ValidationError"
                         ELSE IF CallerHasReservedKey THEN "ReservedArgumentError"
                         ELSE "ConfigurationError"
    /\ (WorkerTypeSet /\ WorkerCountSet /\ Succeeded) =>
         /\ last.emitted[1].workerType = last.props.workerType
         /\ last.emitted[1].numberOfWorkers = last.props.numberOrWorkers

\* a worker count of 0 without a workerType is rejected
C2_Witness ==
  /\ IsPySpark /\ ~WorkerTypeSet
  /\ last.props.numberOrWorkers = Some(0)
  /\ last.error = "ConfigurationError" /\ last.emitted = << >>

-----------------------------------------------------------------------------
(* C3 *)

\* C3 (as stated): a successfully constructed pySparkStreamingJob with neither
\* workerType nor the worker count set emits a job resource without workerType
\* and without numberOfWorkers.
C3_NoWorkerSizingEmitted ==
  (IsPySpark /\ Succeeded /\ ~WorkerTypeSet /\ ~WorkerCountSet) =>
    /\ last.emitted[1].workerType = None
    /\ last.emitted[1].numberOfWorkers = None

\* C3 (amended): a successfully constructed pySparkStreamingJob with neither
\* workerType nor the worker count set emits a job resource with the default
\* workerType G.2X and without numberOfWorkers.
C3_DefaultWorkerTypeEmitted ==
  (IsPySpark /\ Succeeded /\ ~WorkerTypeSet /\ ~WorkerCountSet) =>
    /\ last.emitted[1].workerType = Some(WorkerType_G_2X)
    /\ last.emitted[1].numberOfWorkers = None

C3_Witness ==
  /\ IsPySpark /\ Succeeded /\ ~WorkerTypeSet /\ ~WorkerCountSet
  /\ Len(last.emitted) = 1
  /\ last.emitted[1].workerType = Some("G.2X")

-----------------------------------------------------------------------------
(* C4 *)

\* the five fragments of the merge, lowest precedence first
Fragments ==
  <<executableArguments(last.props),
    continuousLoggingArgs(last.props),
    profilingMetricsArgs,
    sparkUIArgs(last.props, last.id).args,
    CallerMap>>

\* C4: the argument map emitted by a successfully constructed
\* pySparkStreamingJob has exactly the keys of the five fragments (executable,
\* continuous logging, metrics, Spark UI, caller-supplied), and every key has
\* the value of the last fragment in that order that contains it.
C4_ArgumentsAreOrderedMerge ==
  (IsPySpark /\ Succeeded) =>
    /\ DOMAIN EmittedArguments = UNION {DOMAIN Fragments[i] : i \in 1..5}
    /\ \A k \in DOMAIN EmittedArguments :
         \E i \in 1..5 :
           /\ k \in DOMAIN Fragments[i]
           /\ \A j \in (i + 1)..5 : k \notin DOMAIN Fragments[j]
           /\ EmittedArguments[k] = Fragments[i][k]

\* a caller-supplied key collides with the metrics fragment and wins, with
\* all five fragments non-empty
C4_Witness ==
  /\ IsPySpark /\ Succeeded
  /\ \A i \in 1..5 : DOMAIN Fragments[i] # {}
  /\ "--enable-metrics" \in DOMAIN CallerMap
  /\ EmittedArguments["--enable-metrics"] = "x"
  /\ EmittedArguments["--enable-spark-ui"] = "true"

-----------------------------------------------------------------------------
(* C5 *)

\* C5: a successfully constructed pySparkStreamingJob whose Spark UI
\* configuration supplies no bucket creates one bucket of its own, grants the
\* role read/write on it under the cleaned prefix, exposes it as
\* sparkUILoggingLocation and emits both Spark UI arguments.
C5_SparkUIWithoutBucketCreatesOne ==
  (Succeeded /\ SparkUIConfigured /\ ~SparkUIBucketSupplied) =>
    /\ Cardinality(last.created) = 1
    /\ \A b \in last.created :
         /\ [bucket |-> b, role |-> last.props.role,
             prefix |-> cleanSparkUiPrefixForGrant(last.props.sparkUI[1].prefix)]
              \in last.granted
         /\ last.sparkUILoggingLocation =
              Some([prefix |-> last.props.sparkUI[1].prefix, bucket |-> b])
    /\ {"--enable-spark-ui", "--spark-event-logs-path"} \subseteq DOMAIN EmittedArguments

-----------------------------------------------------------------------------
(* C6 *)

\* C6: a pySparkStreamingJob whose Spark UI configuration has a malformed prefix
\* fails with a validation error, with or without a bucket in the
\* configuration, before it creates a bucket or grants anything.
C6_MalformedPrefixRaisesValidationError ==
  SparkUIPrefixMalformed =>
    /\ last.error = "ValidationError"
    /\ last.created = {}
    /\ last.granted = {}

-----------------------------------------------------------------------------
(* C7 *)

SparkUIKeys == {"--enable-spark-ui", "--spark-event-logs-path"}

\* the Spark UI arguments for the supplied bucket and prefix
SuppliedSparkUIArgument(k) ==
  IF k = "--enable-spark-ui" THEN "true"
  ELSE s3UrlForObject(last.props.sparkUI[1].bucket[1], last.props.sparkUI[1].prefix)

SuppliedLocation ==
  Some([prefix |-> last.props.sparkUI[1].prefix,
        bucket |-> last.props.sparkUI[1].bucket[1]])

-----------------------------------------------------------------------------
(* C8 *)

-----------------------------------------------------------------------------
(* C9 *)

\* C9: a constructor call of either variant that does not fail emits exactly
\* one job resource, and leaves jobName and jobArn assigned from the reference
\* of that resource.
C9_SuccessEmitsOneResolvedJob ==
  Succeeded =>
    /\ Len(last.emitted) = 1
    /\ last.jobName = Some(getResourceNameAttribute(last.emitted[1].ref))
    /\ last.jobArn = Some(buildJobArn(getResourceNameAttribute(last.emitted[1].ref)))

-----------------------------------------------------------------------------
(* C10 *)

\* C10: a pySparkStreamingJob constructor call that fails leaves the scope as
\* it was: no job resource emitted, no grant applied to a bucket or role, no
\* bucket created.
C10_FailedConstructionChangesNothing ==
  [][(calls' # calls /\ last'.variant = "pySparkStreamingJob" /\ last'.error # "none")
       => (stackJobs' = stackJobs /\ grants' = grants /\ buckets' = buckets)]_vars

====
